---- MODULE Spec2Model ----
(***************************************************************************)
(* A model of the Flask blog in src/main.py: the users, blog_posts and     *)
(* comments tables, the session cookie of one browser, and one action per  *)
(* route handler.  A second specification, SpecConc, splits edit_post and  *)
(* delete_post into their query and commit steps and interleaves two       *)
(* requests.                                                               *)
(***************************************************************************)
EXTENDS Integers, Sequences, FiniteSets, TLC

\* ---------------------------------------------------------------- bounds
MaxUsers == 2
MaxPosts == 2
MaxComments == 1
NumEmails == 2

\* ------------------------------------------------------- program constants
ADMIN_ID == 1
NULL == 0

\* ------------------------------------------------------------ input values
Emails == 1..NumEmails
Passwords == {"p", "q"}
Salts == {"k"}
Usernames == {"n"}
Titles == {"X", "Y"}
Subtitles == {"s1"}
ConcSubtitles == {"s1", "s2"}
Bodies == {"b"}
ImgUrls == {"u"}
Texts == {"c"}
Today == "November 06, 2026"
Methods == {"GET", "POST"}
PostIds == 1..MaxPosts
Workers == {1, 2}

VARIABLES
    users,       \* rows of table users
    blog_posts,  \* rows of table blog_posts
    comments,    \* rows of table comments
    session,     \* user id stored in the session cookie, NULL when none
    deleted,     \* history: ids of posts the administrator deleted, not created since
    req,         \* the request handled last
    resp,        \* the response to it
    txn          \* SpecConc: per in-flight request, its position and ORM state

vars == <<users, blog_posts, comments, session, deleted, req, resp, txn>>
store == <<users, blog_posts, comments>>

\* ------------------------------------------------------------------ helpers
MaxOf(S) == CHOOSE m \in S : \A x \in S : x <= m

\* INTEGER PRIMARY KEY of the default sqlite store: largest id in the table + 1
NextId(rows) == IF rows = {} THEN 1 ELSE MaxOf({r.id : r \in rows}) + 1

NoRow == [id |-> NULL]

\* Query.get(id): the row with that primary key, or None
Row(rows, id) == IF \E r \in rows : r.id = id
                 THEN CHOOSE r \in rows : r.id = id
                 ELSE NoRow

\* A response: its status, the redirect target / template / error, the flash notice
Redirect(to, flash) == [status |-> 302, body |-> to, flash |-> flash]
Render(tpl, flash) == [status |-> 200, body |-> tpl, flash |-> flash]
Fault(err) == [status |-> 500, body |-> err, flash |-> ""]
Forbidden == [status |-> 403, body |-> "Forbidden", flash |-> ""]
Call == [status |-> 0, body |-> "call", flash |-> ""]

\* A request: the view it is routed to, its method, the id in its path and
\* the submitted fields the handlers branch on
Request(op, method, id, email, password, title, text) ==
    [op |-> op, method |-> method, id |-> id, email |-> email,
     password |-> password, title |-> title, text |-> text]

\* --------------------------------------------------------- password hashes
Digest(salt, password) == <<salt, password>>

\* a hash whose digest is not computed under the salt it stores
GenerateUnderOtherSalt(password, salt) ==
    [method |-> "pbkdf2:sha256", salt |-> salt, digest |-> Digest("", password)]

generate_password_hash(password, salt) ==
    [method |-> "pbkdf2:sha256", salt |-> salt, digest |-> Digest(salt, password)]

\* a check that compares the salts only
CheckSaltOnly(pwhash, password) ==
    Digest(pwhash.salt, password)[1] = pwhash.digest[1]

check_password_hash(pwhash, password) ==
    Digest(pwhash.salt, password) = pwhash.digest

\* ------------------------------------------------------------- identities
load_user(user_id) == Row(users, user_id)

\* id of current_user, NULL for the anonymous user
current_user == load_user(session).id

\* every visitor counts as authenticated
AlwaysAuthenticated == TRUE

is_authenticated == current_user # NULL

\* ---------------------------------------------------------------- actions
\* An in-flight request of SpecConc: where it is, what it asked, what it loaded
Txn(pc, op, id, form, loaded, answer) ==
    [pc |-> pc, op |-> op, id |-> id, form |-> form, loaded |-> loaded, answer |-> answer]

NoForm == [title |-> "", subtitle |-> "", img_url |-> "", author_id |-> NULL, body |-> ""]

Idle == [w \in Workers |-> Txn("idle", "none", NULL, NoForm, NoRow, Call)]

Init ==
    /\ users = {}
    /\ blog_posts = {}
    /\ comments = {}
    /\ session = NULL
    /\ deleted = {}
    /\ req = Request("none", "GET", NULL, NULL, "", "", "")
    /\ resp = Render("none", "")
    /\ txn = Idle

\* ---------------------------------------------------------------- forms
\* Flask-WTF: the request is a submission and every validator passes
validate_on_submit(method, valid) == method = "POST" /\ valid

\* forms.py: every field is required
RegisterForm(email, username, password) ==
    email # NULL /\ username # "" /\ password # ""

LoginForm(email, password) == email # NULL /\ password # ""

CommentForm(text) == text # ""

CreatePostForm(title, subtitle, body, img_url) ==
    title # "" /\ subtitle # "" /\ body # "" /\ img_url # ""

\* ------------------------------------------------------------ read routes
get_all_posts ==
    /\ req' = Request("get_all_posts", "GET", NULL, NULL, "", "", "")
    /\ resp' = Render("index.html", "")
    /\ UNCHANGED <<users, blog_posts, comments, session, deleted, txn>>

static_page ==
    \E page \in {"about", "contact"} :
        /\ req' = Request(page, "GET", NULL, NULL, "", "", "")
        /\ resp' = Render(page, "")
        /\ UNCHANGED <<users, blog_posts, comments, session, deleted, txn>>

\* ---------------------------------------------------------- authentication
\* a lookup that never finds the row
FirstByEmailMissing(email) == NoRow

\* User.query.filter_by(email=...).first()
FirstByEmail(email) ==
    IF \E u \in users : u.email = email
    THEN CHOOSE u \in users : u.email = email
    ELSE NoRow

\* Column email is unique=True: the INSERT of a second row with it is refused
EmailUnique(rows, email) == \A u \in rows : u.email # email

register(method, email, username, password, salt) ==
    /\ req' = Request("register", method, NULL, email, password, "", "")
    /\ UNCHANGED <<blog_posts, comments, deleted, txn>>
    /\ IF ~validate_on_submit(method, RegisterForm(email, username, password))
       THEN /\ resp' = Render("register.html", "")
            /\ UNCHANGED <<users, session>>
       ELSE IF FirstByEmail(email).id # NULL
       THEN /\ resp' = Redirect("login", "You've already signed up with that email, log in instead!")
            /\ UNCHANGED <<users, session>>
       ELSE /\ NextId(users) <= MaxUsers
            /\ LET new_user == [id |-> NextId(users),
                                email |-> email,
                                username |-> username,
                                password |-> generate_password_hash(password, salt)]
               IN IF ~EmailUnique(users, email)
                  THEN /\ resp' = Fault("IntegrityError")
                       /\ UNCHANGED <<users, session>>
                  ELSE /\ users' = users \cup {new_user}
                       /\ session' = new_user.id
                       /\ resp' = Redirect("get_all_posts", "")

login(method, email, password) ==
    /\ req' = Request("login", method, NULL, email, password, "", "")
    /\ UNCHANGED <<users, blog_posts, comments, deleted, txn>>
    /\ IF ~validate_on_submit(method, LoginForm(email, password))
       THEN /\ resp' = Render("login.html", "")
            /\ UNCHANGED session
       ELSE IF FirstByEmail(email).id = NULL
       THEN /\ resp' = Redirect("login", "That email does not exist")
            /\ UNCHANGED session
       ELSE LET user == FirstByEmail(email)
            IN IF ~check_password_hash(user.password, password)
               THEN /\ resp' = Redirect("login", "Password incorrect, please try again")
                    /\ UNCHANGED session
               ELSE /\ session' = user.id
                    /\ resp' = Redirect("get_all_posts", "")

logout ==
    /\ req' = Request("logout", "GET", NULL, NULL, "", "", "")
    /\ session' = NULL
    /\ resp' = Redirect("get_all_posts", "")
    /\ UNCHANGED <<users, blog_posts, comments, deleted, txn>>

\* ------------------------------------------------------------ authorization
\* The guard: current_user.id is compared with 1; the anonymous user has no id
admin_only(cur) ==
    IF cur = NULL THEN Fault("AttributeError")
    ELSE IF cur # ADMIN_ID THEN Forbidden
    ELSE Call

\* The decorators of the three post-mutating views, top to bottom as written
Decorators(view) == <<"admin_only", "app.route">>

\* Python applies decorators bottom-up and app.route registers the function it
\* is handed: only the decorators written below app.route wrap the registered view
RegisteredDecorators(view) ==
    LET ds == Decorators(view)
        r == CHOOSE i \in 1..Len(ds) : ds[i] = "app.route"
    IN {ds[i] : i \in (r + 1)..Len(ds)}

\* What runs before the registered view function: the guard's answer, or "call"
Dispatch(view, cur) ==
    IF "admin_only" \in RegisteredDecorators(view)
    THEN admin_only(cur)
    ELSE Call

\* ------------------------------------------------------------------- posts
\* column title without its unique constraint
TitleNeverTaken(posts, title, except) == FALSE

TitleTaken(posts, title, except) ==
    \E q \in posts : q.id # except /\ q.title = title

\* render_template("post.html", post=...): the template is not part of the
\* handler; with post=None it may render or fault, it never answers 404
RenderPost(post_id, flash) ==
    IF post_id = NULL THEN {Render("post.html", flash), Fault("UndefinedError")}
    ELSE {Render("post.html", flash)}

show_post(method, post_id, text) ==
    LET requested_post == Row(blog_posts, post_id).id
    IN /\ req' = Request("show_post", method, post_id, NULL, "", "", text)
       /\ UNCHANGED <<users, blog_posts, session, deleted, txn>>
       /\ IF validate_on_submit(method, CommentForm(text))
          THEN IF ~is_authenticated
               THEN /\ resp' = Redirect("login", "You need to log in before posting a comment")
                    /\ UNCHANGED comments
               ELSE /\ NextId(comments) <= MaxComments
                    /\ comments' = comments \cup
                           {[id |-> NextId(comments),
                             commenter_id |-> current_user,
                             parent_post_id |-> requested_post,
                             text |-> text]}
                    /\ resp' \in RenderPost(requested_post, "Comment saved")
          ELSE /\ resp' \in RenderPost(requested_post, "")
               /\ UNCHANGED comments

add_new_post(method, title, subtitle, body, img_url) ==
    /\ req' = Request("add_new_post", method, NULL, NULL, "", title, "")
    /\ UNCHANGED <<users, comments, session, txn>>
    /\ LET guard == Dispatch("add_new_post", current_user)
       IN IF guard # Call
          THEN /\ resp' = guard
               /\ UNCHANGED <<blog_posts, deleted>>
          ELSE IF ~validate_on_submit(method, CreatePostForm(title, subtitle, body, img_url))
          THEN /\ resp' = Render("make-post.html", "")
               /\ UNCHANGED <<blog_posts, deleted>>
          ELSE IF ~is_authenticated
          THEN \* author=current_user: the anonymous user is no mapped instance
               /\ resp' = Fault("AttributeError")
               /\ UNCHANGED <<blog_posts, deleted>>
          ELSE IF TitleTaken(blog_posts, title, NULL)
          THEN /\ resp' = Fault("IntegrityError")
               /\ UNCHANGED <<blog_posts, deleted>>
          ELSE /\ NextId(blog_posts) <= MaxPosts
               /\ LET new_post == [id |-> NextId(blog_posts),
                                   author_id |-> current_user,
                                   title |-> title,
                                   subtitle |-> subtitle,
                                   date |-> Today,
                                   body |-> body,
                                   img_url |-> img_url]
                  IN /\ blog_posts' = blog_posts \cup {new_post}
                     /\ deleted' = deleted \ {new_post.id}
               /\ resp' = Redirect("get_all_posts", "")

\* -------------------------------------------------- the ORM's unit of work
\* The attributes edit_post assigns from the form
PostColumns == {"title", "subtitle", "img_url", "author_id", "body"}

EditForm(title, subtitle, img_url, author, body) ==
    [title |-> title, subtitle |-> subtitle, img_url |-> img_url,
     author_id |-> author, body |-> body]

\* An attribute set to the value that was loaded has no net change
Dirty(loaded, form) == {c \in PostColumns : form[c] # loaded[c]}

\* db.session.commit() after the assignments of edit_post: one UPDATE of the
\* changed columns WHERE id = loaded.id, run against the rows as they are now
FlushEdit(posts, loaded, form) ==
    LET dirty == Dirty(loaded, form)
        row == Row(posts, loaded.id)
    IN IF dirty = {}
       THEN [posts |-> posts, error |-> ""]
       ELSE IF row.id = NULL
       THEN [posts |-> posts, error |-> "StaleDataError"]
       ELSE IF "title" \in dirty /\ TitleTaken(posts, form.title, loaded.id)
       THEN [posts |-> posts, error |-> "IntegrityError"]
       ELSE [posts |-> (posts \ {row}) \cup
                        {[c \in DOMAIN row |-> IF c \in dirty THEN form[c] ELSE row[c]]},
             error |-> ""]

\* db.session.delete(post); commit(): the comments of the post get a NULL
\* parent_post_id (no delete cascade is configured), then the row is deleted
Nullify(cs, post_id) ==
    {IF c.parent_post_id = post_id THEN [c EXCEPT !.parent_post_id = NULL] ELSE c : c \in cs}

FlushDelete(posts, cs, loaded) ==
    [posts |-> {q \in posts : q.id # loaded.id},
     comments |-> Nullify(cs, loaded.id)]

\* edit_form.author.data: the form mirrors the post's author reference
EditAuthorInputs(post_id) ==
    IF Row(blog_posts, post_id).id = NULL THEN {NULL} ELSE {u.id : u \in users}

edit_post(method, post_id, title, subtitle, img_url, author, body) ==
    /\ req' = Request("edit_post", method, post_id, NULL, "", title, "")
    /\ UNCHANGED <<users, comments, session, deleted, txn>>
    /\ LET guard == Dispatch("edit_post", current_user)
           post == Row(blog_posts, post_id)
       IN IF guard # Call
          THEN /\ resp' = guard
               /\ UNCHANGED blog_posts
          ELSE IF post.id = NULL
          THEN \* post.title on None
               /\ resp' = Fault("AttributeError")
               /\ UNCHANGED blog_posts
          ELSE IF ~validate_on_submit(method, CreatePostForm(title, subtitle, body, img_url))
          THEN /\ resp' = Render("make-post.html", "")
               /\ UNCHANGED blog_posts
          ELSE LET done == FlushEdit(blog_posts, post,
                                     EditForm(title, subtitle, img_url, author, body))
               IN /\ blog_posts' = done.posts
                  /\ resp' = IF done.error = "" THEN Redirect("show_post", "")
                             ELSE Fault(done.error)

delete_post(post_id) ==
    /\ req' = Request("delete_post", "GET", post_id, NULL, "", "", "")
    /\ UNCHANGED <<users, session, txn>>
    /\ LET guard == Dispatch("delete_post", current_user)
           post_to_delete == Row(blog_posts, post_id)
       IN IF guard # Call
          THEN /\ resp' = guard
               /\ UNCHANGED <<blog_posts, comments, deleted>>
          ELSE IF post_to_delete.id = NULL
          THEN \* db.session.delete(None)
               /\ resp' = Fault("UnmappedInstanceError")
               /\ UNCHANGED <<blog_posts, comments, deleted>>
          ELSE LET done == FlushDelete(blog_posts, comments, post_to_delete)
               IN /\ blog_posts' = done.posts
                  /\ comments' = done.comments
                  /\ deleted' = IF current_user = ADMIN_ID
                                THEN deleted \cup {post_id} ELSE deleted
                  /\ resp' = Redirect("get_all_posts", "")

Next ==
    \/ get_all_posts
    \/ static_page
    \/ \E n \in Usernames : register("GET", NULL, n, "", "k")
    \/ \E e \in Emails \cup {NULL}, n \in Usernames, p \in Passwords, s \in Salts :
          register("POST", e, n, p, s)
    \/ login("GET", NULL, "")
    \/ \E e \in Emails \cup {NULL}, p \in Passwords : login("POST", e, p)
    \/ logout
    \/ \E i \in PostIds : show_post("GET", i, "")
    \/ \E i \in PostIds, t \in Texts \cup {""} : show_post("POST", i, t)
    \/ \E st \in Subtitles, b \in Bodies, u \in ImgUrls : add_new_post("GET", "", st, b, u)
    \/ \E t \in Titles \cup {""}, st \in Subtitles, b \in Bodies, u \in ImgUrls :
          add_new_post("POST", t, st, b, u)
    \/ \E i \in PostIds, st \in Subtitles, b \in Bodies, u \in ImgUrls :
          edit_post("GET", i, "", st, u, NULL, b)
    \/ \E i \in PostIds, t \in Titles \cup {""}, st \in Subtitles, b \in Bodies,
          u \in ImgUrls :
          \E a \in EditAuthorInputs(i) : edit_post("POST", i, t, st, u, a, b)
    \/ \E i \in PostIds : delete_post(i)

Spec == Init /\ [][Next]_vars

\* ------------------------------------------------- interleaved requests
\* The administrator is registered and logged in and has written one post,
\* on which there is one comment; two requests on that post are in flight.
ConcUser == [id |-> ADMIN_ID, email |-> 1, username |-> "n",
             password |-> generate_password_hash("p", "k")]

ConcPost == [id |-> 1, author_id |-> ADMIN_ID, title |-> "X", subtitle |-> "s1",
             date |-> Today, body |-> "b", img_url |-> "u"]

ConcComment == [id |-> 1, commenter_id |-> ADMIN_ID, parent_post_id |-> 1, text |-> "c"]

InitConc ==
    /\ users = {ConcUser}
    /\ blog_posts = {ConcPost}
    /\ comments = {ConcComment}
    /\ session = ADMIN_ID
    /\ deleted = {}
    /\ req = Request("none", "GET", NULL, NULL, "", "", "")
    /\ resp = Render("none", "")
    /\ txn = Idle

\* Lines 234 / 258: the handler runs BlogPost.query.get(post_id)
conc_query(w, op, post_id, form) ==
    /\ txn[w].pc = "idle"
    /\ LET guard == Dispatch(op, current_user)
           loaded == Row(blog_posts, post_id)
       IN txn' = [txn EXCEPT ![w] =
              IF guard # Call
              THEN Txn("done", op, post_id, form, NoRow, guard)
              ELSE IF loaded.id = NULL
              THEN Txn("done", op, post_id, form, NoRow,
                       Fault(IF op = "edit_post" THEN "AttributeError"
                             ELSE "UnmappedInstanceError"))
              ELSE Txn("queried", op, post_id, form, loaded, Call)]
    /\ UNCHANGED <<users, blog_posts, comments, session, deleted, req, resp>>

\* Lines 244-249 / 259-260: the handler assigns or deletes, and commits
conc_commit(w) ==
    /\ txn[w].pc = "queried"
    /\ UNCHANGED <<users, session, deleted, req, resp>>
    /\ LET t == txn[w]
       IN IF t.op = "edit_post"
          THEN LET done == FlushEdit(blog_posts, t.loaded, t.form)
               IN /\ blog_posts' = done.posts
                  /\ UNCHANGED comments
                  /\ txn' = [txn EXCEPT ![w].pc = "done",
                                        ![w].answer = IF done.error = ""
                                                      THEN Redirect("show_post", "")
                                                      ELSE Fault(done.error)]
          ELSE LET done == FlushDelete(blog_posts, comments, t.loaded)
               IN /\ blog_posts' = done.posts
                  /\ comments' = done.comments
                  /\ txn' = [txn EXCEPT ![w].pc = "done",
                                        ![w].answer = Redirect("get_all_posts", "")]

NextConc ==
    \/ \E w \in Workers, i \in PostIds, t \in Titles, st \in ConcSubtitles,
          b \in Bodies, u \in ImgUrls :
          conc_query(w, "edit_post", i, EditForm(t, st, u, ADMIN_ID, b))
    \/ \E w \in Workers, i \in PostIds : conc_query(w, "delete_post", i, NoForm)
    \/ \E w \in Workers : conc_commit(w)

SpecConc == InitConc /\ [][NextConc]_vars

\* ================================================================== claims
AdminViews == {"add_new_post", "edit_post", "delete_post"}

Submitted == req'.method = "POST"

\* C1: a request to CreatePost, EditPost or DeletePost by an authenticated
\* identity whose id is not 1 is answered 403 and leaves the three tables as
\* they were.
NonAdminForbidden ==
    [][(req'.op \in AdminViews /\ current_user \notin {NULL, ADMIN_ID})
         => (resp'.status = 403 /\ store' = store)]_vars

\* C2: a request to an admin-only route with no session identity is answered
\* 403 and leaves the store unchanged.
AnonymousForbidden ==
    [][(req'.op \in AdminViews /\ current_user = NULL)
         => (resp'.status = 403 /\ store' = store)]_vars

UniqueEmails == \A u, v \in users : u.email = v.email => u = v

\* C3: Register with an email of a stored user is redirected to login with the
\* duplicate-email notice, adds no user row and keeps the session identity; and
\* no two user rows ever share an email.
DuplicateEmailRejected ==
    /\ []UniqueEmails
    /\ [][(req'.op = "register" /\ Submitted
             /\ \E u \in users : u.email = req'.email)
            => /\ resp' = Redirect("login",
                     "You've already signed up with that email, log in instead!")
               /\ users' = users
               /\ session' = session]_vars

DuplicateEmailSeen ==
    /\ req.op = "register"
    /\ resp.flash = "You've already signed up with that email, log in instead!"
    /\ \E u \in users : u.email = req.email /\ u.id # session

\* The stored hash of u is the hash of password under the salt it was made with
Registered(u, password) ==
    u.password = generate_password_hash(password, u.password.salt)

\* C4: Login with the email of a stored user and a password that does not
\* verify against that user's hash is answered with the wrong-password notice
\* and leaves the session identity as it was.
WrongPasswordRejected ==
    [][\A u \in users :
         (req'.op = "login" /\ Submitted /\ u.email = req'.email
            /\ ~Registered(u, req'.password))
         => /\ resp' = Redirect("login", "Password incorrect, please try again")
            /\ session' = session]_vars

WrongPasswordSeen ==
    /\ req.op = "login"
    /\ resp.flash = "Password incorrect, please try again"
    /\ \E u \in users : u.email = req.email /\ ~Registered(u, req.password)
                        /\ session # u.id

\* C5: Login with the email of a stored user and the password that user
\* registered with sets the session identity to that user's id, whatever it
\* was before.
CorrectPasswordLogsIn ==
    [][\A u \in users :
         (req'.op = "login" /\ Submitted /\ u.email = req'.email
            /\ Registered(u, req'.password))
         => /\ resp' = Redirect("get_all_posts", "")
            /\ session' = u.id
            /\ current_user' = u.id]_vars

\* a login of the administrator while a second user exists (whose session the
\* registration had established)
CorrectLoginSeen ==
    /\ req.op = "login"
    /\ resp = Redirect("get_all_posts", "")
    /\ Cardinality(users) = 2
    /\ \E u \in users : u.email = req.email /\ Registered(u, req.password)
                        /\ session = u.id /\ u.id = ADMIN_ID

\* C6: a comment submitted on ShowPost with no authenticated session adds no
\* comment row and is redirected to login.
AnonymousCommentRejected ==
    [][(req'.op = "show_post" /\ Submitted /\ req'.text # "" /\ current_user = NULL)
         => /\ comments' = comments
            /\ resp'.status = 302
            /\ resp'.body = "login"]_vars

AnonymousCommentSeen ==
    /\ req.op = "show_post"
    /\ req.text # ""
    /\ session = NULL
    /\ resp.flash = "You need to log in before posting a comment"
    /\ \E q \in blog_posts : q.id = req.id

UniqueTitles == \A q, r \in blog_posts : q.title = r.title => q = r

\* C7: CreatePost by the administrator with the title of an existing post fails
\* and adds no post row; and no two posts ever share a title.
DuplicateTitleRejected ==
    /\ []UniqueTitles
    /\ [][(req'.op = "add_new_post" /\ Submitted /\ current_user = ADMIN_ID
             /\ \E q \in blog_posts : q.title = req'.title)
            => /\ resp'.status = 500
               /\ blog_posts' = blog_posts]_vars

DuplicateTitleSeen ==
    /\ req.op = "add_new_post"
    /\ session = ADMIN_ID
    /\ resp = Fault("IntegrityError")
    /\ \E q \in blog_posts : q.title = req.title
    /\ Cardinality(blog_posts) < MaxPosts

\* C8: once the administrator has deleted a post, ShowPost of its id answers
\* NotFound (404) for as long as no post with that id is created again.
DeletedPostNotFound ==
    (req.op = "show_post" /\ req.id \in deleted) => resp.status = 404

ExactlyOne(rows, id) == Cardinality({r \in rows : r.id = id}) = 1

\* C9: every post references exactly one existing user as author, every
\* comment exactly one existing user as commenter and exactly one existing
\* post as parent.
ReferentialIntegrity ==
    /\ \A q \in blog_posts : ExactlyOne(users, q.author_id)
    /\ \A c \in comments : /\ ExactlyOne(users, c.commenter_id)
                           /\ ExactlyOne(blog_posts, c.parent_post_id)

\* The handlers run one after the other, each as a whole
RunAlone(op, post_id, form, db) ==
    LET loaded == Row(db.posts, post_id)
    IN IF loaded.id = NULL THEN db
       ELSE IF op = "edit_post"
       THEN [posts |-> FlushEdit(db.posts, loaded, form).posts, comments |-> db.comments]
       ELSE FlushDelete(db.posts, db.comments, loaded)

Serial(first, second) ==
    RunAlone(txn[second].op, txn[second].id, txn[second].form,
             RunAlone(txn[first].op, txn[first].id, txn[first].form,
                      [posts |-> {ConcPost}, comments |-> {ConcComment}]))

\* C10: when EditPost interleaves with EditPost or DeletePost on the same post,
\* the final store is the one some serial order of the two handlers produces.
Serializable ==
    (/\ \A w \in Workers : txn[w].pc = "done"
     /\ txn[1].id = txn[2].id
     /\ "edit_post" \in {txn[1].op, txn[2].op})
    => [posts |-> blog_posts, comments |-> comments] \in {Serial(1, 2), Serial(2, 1)}
====
